---- MODULE Spec2Model ----
(***************************************************************************)
(* A model of the two batch scripts of the repository:                     *)
(*   Audio Folder Transcriber/audioToText2.py  (convert_to_wav,            *)
(*       transcribe_audio, main)                                           *)
(*   Mutiple Videos to Audo files/VideoToAudio.py (get_video_duration,     *)
(*       extract_audio, process_video_folder)                              *)
(* Strings that the code takes apart (file names, status lines, the        *)
(* probe's output) are sequences of one-character strings; texts that the  *)
(* code only joins are sequences of tokens.  Python floats are modelled as *)
(* exact fixed-point numbers with Scale units per second.                  *)
(***************************************************************************)
EXTENDS Integers, Sequences, FiniteSets, TLC

VARIABLES
    \* ---- audio pipeline (audioToText2.py)
    input_folder,      \* the folder string typed at the prompt
    fs,                \* the filesystem: location -> content kind
    audio_files,       \* the filtered listing, in listing order
    fidx,              \* 1-based index of the file being processed
    apc,               \* position of main()
    wav_file,          \* main's local wav_file (Unbound until first assigned)
    audio_len,         \* len(audio), milliseconds
    chunk_duration,    \* transcribe_audio's chunk_duration, seconds
    chunks,            \* math.ceil(duration / chunk_duration)
    ci,                \* the loop variable i of transcribe_audio
    full_transcript,   \* list of recognized texts of the current file
    all_transcripts,   \* list of per-file transcript strings
    output,            \* content of combined_transcript.txt, or NotWritten
    chunk_log,         \* history: outcome of every chunk submitted, in order
    ranges,            \* history: [start, end) of every chunk cut, in order
    bad_files,         \* history: indices of the files that failed
    \* ---- video pipeline (VideoToAudio.py)
    tree,              \* the files under the input folder, as relative paths
    audio_format,      \* the target format
    video_files,       \* the discovered video paths, in walk order
    vidx,              \* 1-based index of the video being processed
    vpc,               \* position of process_video_folder / extract_audio
    successful,        \* the success counter
    failed,            \* the failure counter
    duration,          \* extract_audio's duration, in 1/Scale seconds
    last_progress,     \* extract_audio's last_progress
    pbar_n,            \* the progress bar's position (sum of the updates)
    exception,         \* the exception that left the batch, "" if none
    out_paths,         \* history: the output path derived for each video
    probed,            \* history: what the duration probe did for each video
    started,           \* history: videos for which the transcoder was started
    verdict,           \* history: how the driver counted each video
    returncode,        \* history: the transcoder's exit status per video
    last_line,         \* history: the status line read last
    prev_progress      \* history: last_progress before that line

vvars == <<tree, audio_format, video_files, vidx, vpc, successful, failed,
           duration, last_progress, pbar_n, exception, out_paths, probed,
           started, verdict, returncode, last_line, prev_progress>>

vars == <<input_folder, fs, audio_files, fidx, apc, wav_file, audio_len,
          chunk_duration, chunks, ci, full_transcript, all_transcripts,
          output, chunk_log, ranges, bad_files,
          tree, audio_format, video_files, vidx, vpc, successful, failed,
          duration, last_progress, pbar_n, exception, out_paths, probed,
          started, verdict, returncode, last_line, prev_progress>>

avars == <<input_folder, fs, audio_files, fidx, apc, wav_file, audio_len,
           chunk_duration, chunks, ci, full_transcript, all_transcripts,
           output, chunk_log, ranges, bad_files>>

(***************************************************************************)
(* Bounds of the model.                                                    *)
(***************************************************************************)
MaxFiles == 2          \* at most this many audio files in the folder
DurationStep == 15000  \* audio lengths tried are multiples of this (ms)
MaxDurSteps == 5       \* ... up to MaxDurSteps * DurationStep
MaxAudioMs == 2500     \* chunking alone: every length 0..MaxAudioMs
MaxChunkSec == 2       \* chunking alone: every chunk_duration 1..MaxChunkSec
MaxTreeFiles == 2      \* at most this many files under the video folder

Min(a, b) == IF a < b THEN a ELSE b

Range(s) == {s[k] : k \in 1..Len(s)}

(***************************************************************************)
(* transcribe_audio: the chunk arithmetic.                                 *)
(***************************************************************************)
DefaultChunkDuration == 30

\* variant: one more than the whole chunks, as if the length never divided
NumChunksFloorPlusOne(len, cd) == (len \div (cd * 1000)) + 1

\* math.ceil((len(audio) / 1000) / chunk_duration), on exact rationals
NumChunks(len, cd) == (len + cd * 1000 - 1) \div (cd * 1000)

ChunkStart(i, cd) == i * cd * 1000

ChunkEnd(i, cd, len) == Min((i + 1) * cd * 1000, len)

(***************************************************************************)
(* Paths and the filesystem of the audio pipeline.  A path string is a     *)
(* record [dir, name]; dir "" is a bare relative name.  The process runs   *)
(* in the directory "cwd"; the folder string "." names it.                 *)
(***************************************************************************)
\* a local that no assignment has reached yet
Unbound == [dir |-> "<unbound>", name |-> "<unbound>"]

\* combined_transcript.txt before and after the write of lines 111-112
NotWritten == [written |-> FALSE, text |-> <<>>]
Written(text) == [written |-> TRUE, text |-> text]

\* candidate names of audio files in the input folder (all pass the filter)
UserNames == <<"a.mp3", "temp.wav", "temp_chunk_0.wav">>

\* f"temp_chunk_{i}.wav"
ChunkNames == <<"temp_chunk_0.wav", "temp_chunk_1.wav", "temp_chunk_2.wav",
                "temp_chunk_3.wav", "temp_chunk_4.wav", "temp_chunk_5.wav">>

ChunkPath(i) == [dir |-> "", name |-> ChunkNames[i + 1]]

\* the default output_file of convert_to_wav
TempWav == [dir |-> "", name |-> "temp.wav"]

Folders == {".", "/data"}

\* os.path.join(input_folder, audio_file)
JoinPath(folder, name) == [dir |-> folder, name |-> name]

\* the file a path string names
Resolve(p) == [dir  |-> IF p.dir \in {"", "."} THEN "cwd" ELSE p.dir,
               name |-> p.name]

Locations == [dir : {"cwd", "/data"},
              name : Range(UserNames) \cup Range(ChunkNames) \cup {"temp.wav"}]

Exists(f, p) == f[Resolve(p)] # "none"

WriteFile(f, p, kind) == [f EXCEPT ![Resolve(p)] = kind]

RemoveFile(f, p) == [f EXCEPT ![Resolve(p)] = "none"]

Listings == {s \in UNION {[1..n -> Range(UserNames)] : n \in 0..MaxFiles} :
                \A j, k \in 1..Len(s) : j # k => s[j] # s[k]}

NFiles == Len(audio_files)

full_path == JoinPath(input_folder, audio_files[fidx])

(***************************************************************************)
(* Joining.  " ".join(xs) and "\n".join(xs) on token sequences.            *)
(***************************************************************************)
RECURSIVE JoinTokens(_, _)
JoinTokens(xs, sep) ==
    IF Len(xs) = 0 THEN <<>>
    ELSE IF Len(xs) = 1 THEN <<xs[1]>>
    ELSE <<xs[1], sep>> \o JoinTokens(Tail(xs), sep)

RECURSIVE JoinTexts(_, _)
JoinTexts(xs, sep) ==
    IF Len(xs) = 0 THEN <<>>
    ELSE IF Len(xs) = 1 THEN xs[1]
    ELSE xs[1] \o <<sep>> \o JoinTexts(Tail(xs), sep)

HeaderOpen == "\n\n--- TRANSCRIPT FOR: "
HeaderClose == " ---\n\n"

\* f"\n\n--- TRANSCRIPT FOR: {audio_file} ---\n\n"
Header(name) == <<HeaderOpen, name, HeaderClose>>

\* what the recognition service returns for chunk i of a file
Words == <<"w0", "w1", "w2", "w3", "w4", "w5">>
RecognizedText(i) == Words[i + 1]

\* the video pipeline at rest
VIdle ==
    /\ tree = {}
    /\ audio_format = <<>>
    /\ video_files = <<>>
    /\ vidx = 1
    /\ vpc = "idle"
    /\ successful = 0
    /\ failed = 0
    /\ duration = 0
    /\ last_progress = 0
    /\ pbar_n = 0
    /\ exception = ""
    /\ out_paths = <<>>
    /\ probed = <<>>
    /\ started = {}
    /\ verdict = <<>>
    /\ returncode = <<>>
    /\ last_line = <<>>
    /\ prev_progress = 0

\* variant: a failed chunk leaves an empty text behind
RecognizePlaceholder(ft, outcome, i) ==
    IF outcome = "text" THEN Append(ft, RecognizedText(i))
    ELSE Append(ft, "")

\* lines 46-54: what one recognition outcome does to full_transcript
Recognize(ft, outcome, i) ==
    IF outcome = "text" THEN Append(ft, RecognizedText(i)) ELSE ft

(***************************************************************************)
(* main() of audioToText2.py.                                              *)
(***************************************************************************)
AInit ==
    /\ input_folder \in Folders
    /\ audio_files \in Listings
    /\ fs = [l \in Locations |->
               IF l.dir = Resolve(JoinPath(input_folder, "x")).dir
                  /\ l.name \in Range(audio_files)
               THEN "orig" ELSE "none"]
    /\ fidx = 1
    /\ apc = "start"
    /\ wav_file = Unbound
    /\ audio_len = 0
    /\ chunk_duration = DefaultChunkDuration
    /\ chunks = 0
    /\ ci = 0
    /\ full_transcript = <<>>
    /\ all_transcripts = <<>>
    /\ output = NotWritten
    /\ chunk_log = <<>>
    /\ ranges = <<>>
    /\ bad_files = {}

\* lines 72-80: the early return on an empty listing
AStart ==
    /\ apc = "start"
    /\ \/ /\ NFiles = 0
          /\ apc' = "done"
       \/ /\ NFiles > 0
          /\ apc' = "loop"
    /\ UNCHANGED <<input_folder, fs, audio_files, fidx, wav_file, audio_len,
                   chunk_duration, chunks, ci, full_transcript,
                   all_transcripts, output, chunk_log, ranges, bad_files>>
    /\ UNCHANGED vvars

\* the finally block, lines 105-108, given the filesystem f it finds
Cleanup(f) ==
    IF wav_file # full_path /\ Exists(f, wav_file)
    THEN RemoveFile(f, wav_file) ELSE f

\* except + finally after an exception raised in the try block; f is the
\* filesystem at the raise
FileFailed(f) ==
    /\ bad_files' = bad_files \cup {fidx}
    /\ IF wav_file = Unbound
       THEN \* UnboundLocalError in the finally block leaves main()
            /\ apc' = "crashed"
            /\ fs' = f
            /\ fidx' = fidx
       ELSE /\ apc' = "loop"
            /\ fs' = Cleanup(f)
            /\ fidx' = fidx + 1

\* line 88 with convert_to_wav (lines 6-13), and what follows a raise
ConvertToWav ==
    /\ apc = "loop"
    /\ fidx <= NFiles
    /\ \/ \* decoded and exported
          /\ Exists(fs, full_path)
          /\ fs' = WriteFile(fs, TempWav, "conv")
          /\ wav_file' = TempWav
          /\ apc' = "load"
          /\ UNCHANGED <<fidx, bad_files>>
       \/ \* AudioSegment.from_file raises: nothing written
          /\ FileFailed(fs)
          /\ UNCHANGED wav_file
       \/ \* audio.export raises, leaving a partial temp.wav or none
          /\ Exists(fs, full_path)
          /\ \E partial \in BOOLEAN :
                FileFailed(IF partial THEN WriteFile(fs, TempWav, "conv")
                           ELSE fs)
          /\ UNCHANGED wav_file
    /\ UNCHANGED <<input_folder, audio_files, audio_len, chunk_duration,
                   chunks, ci, full_transcript, all_transcripts, output,
                   chunk_log, ranges>>
    /\ UNCHANGED vvars

\* lines 23-32: load the normalized copy, count the chunks
LoadAudio ==
    /\ apc = "load"
    /\ \E k \in 0..MaxDurSteps :
          /\ audio_len' = k * DurationStep
          /\ chunks' = NumChunks(k * DurationStep, chunk_duration)
    /\ ci' = 0
    /\ full_transcript' = <<>>
    /\ chunk_log' = <<>>
    /\ ranges' = <<>>
    /\ apc' = "chunk"
    /\ UNCHANGED <<input_folder, fs, audio_files, fidx, wav_file,
                   chunk_duration, all_transcripts, output, bad_files>>
    /\ UNCHANGED vvars

\* one iteration of the loop of lines 34-57
ChunkStep ==
    /\ apc = "chunk"
    /\ ci < chunks
    /\ LET start_time == ChunkStart(ci, chunk_duration)
           end_time == ChunkEnd(ci, chunk_duration, audio_len)
           chunk_path == ChunkPath(ci)
           exported == WriteFile(fs, chunk_path, "chunk")
       IN
       \/ \* chunk.export raises, leaving a partial chunk file or none
          /\ \E partial \in BOOLEAN :
                FileFailed(IF partial THEN exported ELSE fs)
          /\ UNCHANGED <<ci, full_transcript, chunk_log, ranges>>
       \/ \* sr.AudioFile(chunk_path) or an uncaught error while recognizing
          /\ FileFailed(exported)
          /\ ranges' = Append(ranges, <<start_time, end_time>>)
          /\ UNCHANGED <<ci, full_transcript, chunk_log>>
       \/ \* recognized, UnknownValueError or RequestError; then os.remove
          /\ \E outcome \in {"text", "unknown", "request_error"} :
                /\ full_transcript' = Recognize(full_transcript, outcome, ci)
                /\ chunk_log' = Append(chunk_log,
                                       [i |-> ci, outcome |-> outcome])
          /\ ranges' = Append(ranges, <<start_time, end_time>>)
          /\ fs' = RemoveFile(exported, chunk_path)
          /\ ci' = ci + 1
          /\ UNCHANGED <<apc, fidx, bad_files>>
    /\ UNCHANGED <<input_folder, audio_files, wav_file, audio_len,
                   chunk_duration, chunks, all_transcripts, output>>
    /\ UNCHANGED vvars

\* line 59 and lines 91-100, then the finally block
FinishFile ==
    /\ apc = "chunk"
    /\ ci = chunks
    /\ LET transcript == JoinTokens(full_transcript, " ")
           file_transcript == Header(audio_files[fidx]) \o transcript
       IN all_transcripts' = Append(all_transcripts, file_transcript)
    /\ fs' = Cleanup(fs)
    /\ fidx' = fidx + 1
    /\ apc' = "loop"
    /\ UNCHANGED <<input_folder, audio_files, wav_file, audio_len,
                   chunk_duration, chunks, ci, full_transcript, output,
                   chunk_log, ranges, bad_files>>
    /\ UNCHANGED vvars

\* lines 110-114
WriteOutput ==
    /\ apc = "loop"
    /\ fidx > NFiles
    /\ output' = Written(JoinTexts(all_transcripts, "\n"))
    /\ apc' = "done"
    /\ UNCHANGED <<input_folder, fs, audio_files, fidx, wav_file, audio_len,
                   chunk_duration, chunks, ci, full_transcript,
                   all_transcripts, chunk_log, ranges, bad_files>>
    /\ UNCHANGED vvars

ANext == AStart \/ ConvertToWav \/ LoadAudio \/ ChunkStep \/ FinishFile
            \/ WriteOutput

AudioInit == AInit /\ VIdle

SpecAudio == AudioInit /\ [][ANext]_vars

(***************************************************************************)
(* The chunk arithmetic of transcribe_audio on its own: every length and   *)
(* every chunk_duration within the bounds, no recognition.                 *)
(***************************************************************************)
CInit ==
    /\ audio_len \in 0..MaxAudioMs
    /\ chunk_duration \in 1..MaxChunkSec
    /\ apc = "load"
    /\ input_folder = "."
    /\ audio_files = <<>>
    /\ fs = [l \in Locations |-> "none"]
    /\ fidx = 1
    /\ wav_file = TempWav
    /\ chunks = 0
    /\ ci = 0
    /\ full_transcript = <<>>
    /\ all_transcripts = <<>>
    /\ output = NotWritten
    /\ chunk_log = <<>>
    /\ ranges = <<>>
    /\ bad_files = {}

\* lines 29-30
CountChunks ==
    /\ apc = "load"
    /\ chunks' = NumChunks(audio_len, chunk_duration)
    /\ ci' = 0
    /\ apc' = "chunk"
    /\ UNCHANGED <<input_folder, fs, audio_files, fidx, wav_file, audio_len,
                   chunk_duration, full_transcript, all_transcripts, output,
                   chunk_log, ranges, bad_files>>
    /\ UNCHANGED vvars

\* lines 34-38
CutChunk ==
    /\ apc = "chunk"
    /\ ci < chunks
    /\ ranges' = Append(ranges, <<ChunkStart(ci, chunk_duration),
                                  ChunkEnd(ci, chunk_duration, audio_len)>>)
    /\ ci' = ci + 1
    /\ UNCHANGED <<input_folder, fs, audio_files, fidx, apc, wav_file,
                   audio_len, chunk_duration, chunks, full_transcript,
                   all_transcripts, output, chunk_log, bad_files>>
    /\ UNCHANGED vvars

\* line 59
CutDone ==
    /\ apc = "chunk"
    /\ ci = chunks
    /\ apc' = "returned"
    /\ UNCHANGED <<input_folder, fs, audio_files, fidx, wav_file, audio_len,
                   chunk_duration, chunks, ci, full_transcript,
                   all_transcripts, output, chunk_log, ranges, bad_files>>
    /\ UNCHANGED vvars

CNext == CountChunks \/ CutChunk \/ CutDone

ChunkInit == CInit /\ VIdle

SpecChunk == ChunkInit /\ [][CNext]_vars

(***************************************************************************)
(* Strings as sequences of one-character strings, with the str methods the *)
(* video script uses.                                                      *)
(***************************************************************************)
Scale == 10 * 10

Max(a, b) == IF a > b THEN a ELSE b

SetMin(S) == CHOOSE x \in S : \A y \in S : x <= y

IsSubAt(str, pat, k) ==
    /\ k + Len(pat) - 1 <= Len(str)
    /\ \A j \in 1..Len(pat) : str[k + j - 1] = pat[j]

\* str.find(pat), 1-based, 0 when absent
Find(str, pat) ==
    LET hits == {k \in 1..Len(str) : IsSubAt(str, pat, k)}
    IN IF hits = {} THEN 0 ELSE SetMin(hits)

\* pat in str
Contains(str, pat) == Find(str, pat) # 0

\* the i-th smallest element of a set of numbers
Nth(S, i) == CHOOSE p \in S : Cardinality({q \in S : q < p}) = i - 1

\* str.split(pat), for a pattern that cannot overlap itself
Split(str, pat) ==
    LET at == {k \in 1..Len(str) : IsSubAt(str, pat, k)}
        n == Cardinality(at)
    IN [i \in 1..(n + 1) |->
           SubSeq(str,
                  IF i = 1 THEN 1 ELSE Nth(at, i - 1) + Len(pat),
                  IF i = n + 1 THEN Len(str) ELSE Nth(at, i) - 1)]

Whitespace == {" ", "\n", "\t", "\r"}

\* str.split(): the maximal runs of non-whitespace
SplitWs(str) ==
    LET starts == {k \in 1..Len(str) :
                      /\ str[k] \notin Whitespace
                      /\ k = 1 \/ str[k - 1] \in Whitespace}
        EndOf(b) == SetMin({k \in b..(Len(str) + 1) :
                              k = Len(str) + 1 \/ str[k] \in Whitespace})
    IN [i \in 1..Cardinality(starts) |->
           SubSeq(str, Nth(starts, i), EndOf(Nth(starts, i)) - 1)]

\* str.strip()
Strip(str) ==
    LET solid == {k \in 1..Len(str) : str[k] \notin Whitespace}
    IN IF solid = {} THEN <<>>
       ELSE SubSeq(str, SetMin(solid),
                   CHOOSE k \in solid : \A m \in solid : m <= k)

Digits == <<"0", "1", "2", "3", "4", "5", "6", "7", "8", "9">>

IsDigit(c) == \E d \in 1..Len(Digits) : Digits[d] = c

DigitVal(c) == (CHOOSE d \in 1..Len(Digits) : Digits[d] = c) - 1

\* the number a string of digits writes
NatOf(ds) ==
    LET upto[k \in 0..Len(ds)] ==
            IF k = 0 THEN 0 ELSE upto[k - 1] * 10 + DigitVal(ds[k])
    IN upto[Len(ds)]

\* the first two fraction digits, in 1/Scale units
FracOf(ds) ==
    (IF Len(ds) >= 1 THEN DigitVal(ds[1]) * 10 ELSE 0)
    + (IF Len(ds) >= 2 THEN DigitVal(ds[2]) ELSE 0)

\* float(str) for signed decimal numerals (no exponent, inf, nan or "_":
\* the modelled strings hold none).  ok = FALSE is ValueError; val is in
\* 1/Scale units, exact for at most two significant fraction digits.
ParseFloat(str) ==
    LET signed == Len(str) > 0 /\ str[1] \in {"-", "+"}
        body == IF signed THEN Tail(str) ELSE str
        parts == Split(body, <<".">>)
        ip == parts[1]
        fp == IF Len(parts) = 2 THEN parts[2] ELSE <<>>
        ok == /\ Len(parts) <= 2
              /\ \A k \in 1..Len(body) : body[k] = "." \/ IsDigit(body[k])
              /\ Len(ip) + Len(fp) > 0
        mag == NatOf(ip) * Scale + FracOf(fp)
    IN [ok |-> ok,
        val |-> IF ~ok THEN 0
                ELSE IF signed /\ str[1] = "-" THEN 0 - mag ELSE mag]

\* int(x / y) for y > 0: truncation toward zero
TruncDiv(x, y) == IF x >= 0 THEN x \div y ELSE 0 - ((0 - x) \div y)
(***************************************************************************)
(* What the external tools print.                                          *)
(***************************************************************************)
\* 'size=1024kB time=00:01:30.50 bitrate=192.0kbits/s\n'
LineHalf == <<"s", "i", "z", "e", "=", "1", "0", "2", "4", "k", "B", " ", "t", "i", "m", "e", "=", "0", "0", ":", "0", "1", ":", "3", "0", ".", "5", "0", " ", "b", "i", "t", "r", "a", "t", "e", "=", "1", "9", "2", ".", "0", "k", "b", "i", "t", "s", "/", "s", "\n">>

\* 'time=00:00:45.00 bitrate=192.0kbits/s\n'
LineQuarter == <<"t", "i", "m", "e", "=", "0", "0", ":", "0", "0", ":", "4", "5", ".", "0", "0", " ", "b", "i", "t", "r", "a", "t", "e", "=", "1", "9", "2", ".", "0", "k", "b", "i", "t", "s", "/", "s", "\n">>

\* 'time=01:00:00.00 bitrate=192.0kbits/s\n'
LineBeyond == <<"t", "i", "m", "e", "=", "0", "1", ":", "0", "0", ":", "0", "0", ".", "0", "0", " ", "b", "i", "t", "r", "a", "t", "e", "=", "1", "9", "2", ".", "0", "k", "b", "i", "t", "s", "/", "s", "\n">>

\* 'time=00:00:01.50 bitrate=192.0kbits/s\n'
LineFraction == <<"t", "i", "m", "e", "=", "0", "0", ":", "0", "0", ":", "0", "1", ".", "5", "0", " ", "b", "i", "t", "r", "a", "t", "e", "=", "1", "9", "2", ".", "0", "k", "b", "i", "t", "s", "/", "s", "\n">>

\* 'time=-00:00:01.00\n'
LineNegative == <<"t", "i", "m", "e", "=", "-", "0", "0", ":", "0", "0", ":", "0", "1", ".", "0", "0", "\n">>

\* 'frame=  100 fps=0.0\n'
LineNoMarker == <<"f", "r", "a", "m", "e", "=", " ", " ", "1", "0", "0", " ", "f", "p", "s", "=", "0", ".", "0", "\n">>

\* ''
LineEof == <<>>

\* 'size=0kB time='
LineMarkerEnd == <<"s", "i", "z", "e", "=", "0", "k", "B", " ", "t", "i", "m", "e", "=">>

\* 'size=0kB time= \n'
LineMarkerBlank == <<"s", "i", "z", "e", "=", "0", "k", "B", " ", "t", "i", "m", "e", "=", " ", "\n">>

\* 'time=N/A bitrate=N/A\n'
LineNA == <<"t", "i", "m", "e", "=", "N", "/", "A", " ", "b", "i", "t", "r", "a", "t", "e", "=", "N", "/", "A", "\n">>

\* 'time=01:30 \n'
LineTwoFields == <<"t", "i", "m", "e", "=", "0", "1", ":", "3", "0", " ", "\n">>

\* 'time=0:00:01:30 \n'
LineFourFields == <<"t", "i", "m", "e", "=", "0", ":", "0", "0", ":", "0", "1", ":", "3", "0", " ", "\n">>

\* 'time=aa:bb:cc \n'
LineLetters == <<"t", "i", "m", "e", "=", "a", "a", ":", "b", "b", ":", "c", "c", " ", "\n">>

\* 'time=:: \n'
LineEmptyFields == <<"t", "i", "m", "e", "=", ":", ":", " ", "\n">>

StatusLines == {LineHalf, LineQuarter, LineBeyond, LineFraction, LineNegative, LineNoMarker, LineEof, LineMarkerEnd, LineMarkerBlank, LineNA, LineTwoFields, LineFourFields, LineLetters, LineEmptyFields}

NoLine == <<"<none>">>

\* '180.000000\n'
Probe180 == <<"1", "8", "0", ".", "0", "0", "0", "0", "0", "0", "\n">>

\* '2.000000\n'
Probe2 == <<"2", ".", "0", "0", "0", "0", "0", "0", "\n">>

\* '0.500000\n'
ProbeHalf == <<"0", ".", "5", "0", "0", "0", "0", "0", "\n">>

\* '0.000000\n'
ProbeZero == <<"0", ".", "0", "0", "0", "0", "0", "0", "\n">>

\* 'N/A\n'
ProbeNA == <<"N", "/", "A", "\n">>

\* ''
ProbeEmpty == <<>>

ProbeOutputs == {Probe180, Probe2, ProbeHalf, ProbeZero, ProbeNA, ProbeEmpty}

TimeMarker == <<"t", "i", "m", "e", "=">>

\* 'b.mov'
NameMov == <<"b", ".", "m", "o", "v">>

\* 'b.MP4'
NameMp4Upper == <<"b", ".", "M", "P", "4">>

\* 'n.txt'
NameTxt == <<"n", ".", "t", "x", "t">>

video_extensions == <<<<".", "m", "p", "4">>,
                      <<".", "a", "v", "i">>,
                      <<".", "m", "o", "v">>,
                      <<".", "m", "k", "v">>,
                      <<".", "w", "m", "v">>,
                      <<".", "f", "l", "v">>,
                      <<".", "w", "e", "b", "m">>,
                      <<".", "m", "4", "v">>,
                      <<".", "3", "g", "p">>>>

\* the choices of --format
Formats == {<<"m", "p", "3">>, <<"w", "a", "v">>}

(***************************************************************************)
(* get_video_duration and the progress estimate of extract_audio.          *)
(***************************************************************************)
\* lines 17-22.  exit_ok is ffprobe's exit status being 0, text what it
\* printed.  raised is the ValueError of float() that nothing catches.
get_video_duration(exit_ok, text) ==
    IF ~exit_ok THEN [raised |-> FALSE, val |-> 0]
    ELSE LET f == ParseFloat(Strip(text))
         IN [raised |-> ~f.ok, val |-> f.val]

\* variant: only a negative duration is unusable
DurationUnusableIfNegative(d) == d < 0

\* line 42
DurationUnusable(d) == d = 0

\* variant: the percentage without the cap
ProgressOfNoClamp(current_time, dur) == TruncDiv(current_time * 100, dur)

\* line 92: min(int((current_time / duration) * 100), 100)
ProgressOf(current_time, dur) ==
    Min(TruncDiv(current_time * 100, dur), 100)

\* lines 83-91, the text work on one status line: kind is "skip" (the
\* line changes nothing), "IndexError" ([0] of an empty list, which nothing
\* catches) or "time" with current_time in 1/Scale seconds
ParseLine(line) ==
    IF ~Contains(line, TimeMarker) THEN [kind |-> "skip", current_time |-> 0]
    ELSE
    LET words == SplitWs(Split(line, TimeMarker)[2])
    IN IF Len(words) = 0
       THEN [kind |-> "IndexError", current_time |-> 0]
       ELSE
       LET time_parts == Split(words[1], <<":">>)
       IN IF Len(time_parts) # 3
          THEN [kind |-> "skip", current_time |-> 0]
          ELSE
          LET hours == ParseFloat(time_parts[1])
              minutes == ParseFloat(time_parts[2])
              seconds == ParseFloat(
                            IF Contains(time_parts[3], <<".">>)
                            THEN Split(time_parts[3], <<".">>)[1]
                            ELSE time_parts[3])
          IN IF ~(hours.ok /\ minutes.ok /\ seconds.ok)
             THEN \* ValueError, caught at line 98
                  [kind |-> "skip", current_time |-> 0]
             ELSE [kind |-> "time",
                   current_time |-> hours.val * 3600 + minutes.val * 60
                                    + seconds.val]

\* ParseLine of every status line the transcoder may print
ParsedLines == {<<line, ParseLine(line)>> : line \in StatusLines}

Parsed(line) == (CHOOSE pl \in ParsedLines : pl[1] = line)[2]

\* a line that changes nothing
Ignored(last) == [exc |-> "", progress |-> last, update |-> 0]

\* lines 83-99: one status line.  The result is the exception that leaves
\* the loop ("" if none), the new last_progress and the amount given to
\* pbar.update.
HandleLine(line, dur, last) ==
    LET parsed == Parsed(line)
    IN IF parsed.kind = "skip" THEN Ignored(last)
       ELSE IF parsed.kind = "IndexError"
       THEN [exc |-> "IndexError", progress |-> last, update |-> 0]
       ELSE IF dur = 0
       THEN \* current_time / duration
            [exc |-> "ZeroDivisionError", progress |-> last, update |-> 0]
       ELSE LET progress == ProgressOf(parsed.current_time, dur)
            IN IF progress > last
               THEN \* lines 96-97: pbar.update(progress - last_progress)
                    [exc |-> "", progress |-> progress,
                     update |-> progress - last]
               ELSE Ignored(last)

(***************************************************************************)
(* Discovery and output paths (process_video_folder).                      *)
(***************************************************************************)
InputRoot == <<"R">>
OutputRoot == <<"O">>
Sep == <<"/">>

\* the candidate files under the input folder, in the order os.walk yields
\* them: [dir, file], dir the walked directory relative to the input folder
WalkOrder == <<[dir |-> <<>>, file |-> NameMov],
               [dir |-> <<>>, file |-> NameMp4Upper],
               [dir |-> <<>>, file |-> NameTxt],
               [dir |-> <<"a">>, file |-> NameMov],
               [dir |-> <<"a">>, file |-> NameMp4Upper],
               [dir |-> <<"a">>, file |-> NameTxt]>>

Upper == <<"M", "P", "O", "V", "B">>
LowerOf == <<"m", "p", "o", "v", "b">>

LowerChar(c) ==
    IF \E u \in 1..Len(Upper) : Upper[u] = c
    THEN LowerOf[CHOOSE u \in 1..Len(Upper) : Upper[u] = c]
    ELSE c

\* str.lower()
Lower(str) == [k \in 1..Len(str) |-> LowerChar(str[k])]

\* str.endswith(suffix)
EndsWith(str, suffix) ==
    /\ Len(suffix) <= Len(str)
    /\ SubSeq(str, Len(str) - Len(suffix) + 1, Len(str)) = suffix

\* line 135
IsVideo(file) ==
    \E e \in 1..Len(video_extensions) :
        EndsWith(Lower(file), video_extensions[e])

\* os.path.join(a, b)
Join(a, b) == a \o Sep \o b

\* the root os.walk reports for a directory, line 133
WalkRoot(dir) == IF dir = <<>> THEN InputRoot ELSE Join(InputRoot, dir)

\* os.path.relpath(path, start) for a path below start
RelPath(path, start) == SubSeq(path, Len(start) + 2, Len(path))

SetMax(S) == CHOOSE x \in S : \A y \in S : x >= y

LastIndex(str, c) ==
    LET hits == {k \in 1..Len(str) : str[k] = c}
    IN IF hits = {} THEN 0 ELSE SetMax(hits)

\* os.path.splitext(path)[0]: cut at the last dot of the last component,
\* unless only dots precede it there
SplitextRoot(path) ==
    LET sep == LastIndex(path, "/")
        dot == LastIndex(path, ".")
    IN IF dot > sep /\ \E k \in (sep + 1)..(dot - 1) : path[k] # "."
       THEN SubSeq(path, 1, dot - 1)
       ELSE path

\* lines 152-153
OutputPath(video_path, fmt) ==
    Join(OutputRoot,
         SplitextRoot(RelPath(video_path, InputRoot)) \o <<".">> \o fmt)

\* lines 132-136
RECURSIVE Discover(_, _)
Discover(t, k) ==
    IF k > Len(WalkOrder) THEN <<>>
    ELSE (IF WalkOrder[k] \in t /\ IsVideo(WalkOrder[k].file)
          THEN <<Join(WalkRoot(WalkOrder[k].dir), WalkOrder[k].file)>>
          ELSE <<>>) \o Discover(t, k + 1)

NVideos == Len(video_files)
(***************************************************************************)
(* process_video_folder with extract_audio.                                *)
(***************************************************************************)
\* the audio pipeline at rest
AIdle ==
    /\ input_folder = "."
    /\ audio_files = <<>>
    /\ fs = [l \in Locations |-> "none"]
    /\ fidx = 1
    /\ apc = "idle"
    /\ wav_file = Unbound
    /\ audio_len = 0
    /\ chunk_duration = DefaultChunkDuration
    /\ chunks = 0
    /\ ci = 0
    /\ full_transcript = <<>>
    /\ all_transcripts = <<>>
    /\ output = NotWritten
    /\ chunk_log = <<>>
    /\ ranges = <<>>
    /\ bad_files = {}

Candidates == 1..Len(WalkOrder)

VInit ==
    /\ tree \in {t \in SUBSET Range(WalkOrder) : Cardinality(t) <= MaxTreeFiles}
    /\ audio_format \in Formats
    /\ video_files = <<>>
    /\ vidx = 1
    /\ vpc = "start"
    /\ successful = 0
    /\ failed = 0
    /\ duration = 0
    /\ last_progress = 0
    /\ pbar_n = 0
    /\ exception = ""
    /\ out_paths = <<>>
    /\ probed = [k \in Candidates |-> "none"]
    /\ started = {}
    /\ verdict = [k \in Candidates |-> "none"]
    /\ returncode = [k \in Candidates |-> "none"]
    /\ last_line = NoLine
    /\ prev_progress = 0

\* lines 126-146
VDiscover ==
    /\ vpc = "start"
    /\ video_files' = Discover(tree, 1)
    /\ vpc' = IF Len(Discover(tree, 1)) = 0 THEN "done" ELSE "loop"
    /\ UNCHANGED <<tree, audio_format, vidx, successful, failed, duration,
                   last_progress, pbar_n, exception, out_paths, probed,
                   started, verdict, returncode, last_line, prev_progress>>
    /\ UNCHANGED avars

\* lines 148-162 up to the start of the transcoder: the output path, the
\* duration probe, the short-circuit of line 42-43, Popen and the fresh
\* progress bar (lines 68-79)
BeginVideo ==
    /\ vpc = "loop"
    /\ vidx <= NVideos
    /\ out_paths' = Append(out_paths,
                           OutputPath(video_files[vidx], audio_format))
    /\ \E exit_ok \in BOOLEAN, text \in ProbeOutputs :
          LET d == get_video_duration(exit_ok, text)
          IN /\ probed' = [probed EXCEPT ![vidx] =
                              IF ~exit_ok THEN "exit_nonzero"
                              ELSE IF d.raised THEN "unparseable"
                              ELSE IF d.val = 0 THEN "zero" ELSE "nonzero"]
             /\ IF d.raised
                THEN \* ValueError leaves get_video_duration, extract_audio
                     \* and process_video_folder
                     /\ vpc' = "crashed"
                     /\ exception' = "ValueError"
                     /\ UNCHANGED <<vidx, failed, duration, last_progress,
                                    pbar_n, started, verdict, last_line,
                                    prev_progress>>
                ELSE IF DurationUnusable(d.val)
                THEN \* return False; failed += 1
                     /\ duration' = d.val
                     /\ failed' = failed + 1
                     /\ verdict' = [verdict EXCEPT ![vidx] = "failure"]
                     /\ vidx' = vidx + 1
                     /\ UNCHANGED <<vpc, exception, last_progress, pbar_n,
                                    started, last_line, prev_progress>>
                ELSE /\ duration' = d.val
                     /\ started' = started \cup {vidx}
                     /\ last_progress' = 0
                     /\ pbar_n' = 0
                     /\ last_line' = NoLine
                     /\ prev_progress' = 0
                     /\ vpc' = "poll"
                     /\ UNCHANGED <<vidx, failed, exception, verdict>>
    /\ UNCHANGED <<tree, audio_format, video_files, successful, returncode>>
    /\ UNCHANGED avars

\* one iteration of the loop of lines 80-101 while the transcoder runs
PollLine ==
    /\ vpc = "poll"
    /\ \E line \in StatusLines :
          LET r == HandleLine(line, duration, last_progress)
          IN /\ last_line' = line
             /\ prev_progress' = last_progress
             /\ last_progress' = r.progress
             /\ pbar_n' = pbar_n + r.update
             /\ exception' = r.exc
             /\ vpc' = IF r.exc = "" THEN "poll" ELSE "crashed"
    /\ UNCHANGED <<tree, audio_format, video_files, vidx, successful, failed,
                   duration, out_paths, probed, started, verdict, returncode>>
    /\ UNCHANGED avars

\* the transcoder has exited: lines 103-113, then lines 159-162
ProcessExit ==
    /\ vpc = "poll"
    /\ \E rc \in {0, 1} :
          /\ returncode' = [returncode EXCEPT ![vidx] =
                               IF rc = 0 THEN "zero" ELSE "nonzero"]
          /\ IF rc # 0
             THEN /\ failed' = failed + 1
                  /\ verdict' = [verdict EXCEPT ![vidx] = "failure"]
                  /\ UNCHANGED successful
             ELSE /\ successful' = successful + 1
                  /\ verdict' = [verdict EXCEPT ![vidx] = "success"]
                  /\ UNCHANGED failed
    /\ vidx' = vidx + 1
    /\ vpc' = "loop"
    /\ UNCHANGED <<tree, audio_format, video_files, duration, last_progress,
                   pbar_n, exception, out_paths, probed, started, last_line,
                   prev_progress>>
    /\ UNCHANGED avars

\* lines 164-167
VSummary ==
    /\ vpc = "loop"
    /\ vidx > NVideos
    /\ vpc' = "done"
    /\ UNCHANGED <<tree, audio_format, video_files, vidx, successful, failed,
                   duration, last_progress, pbar_n, exception, out_paths,
                   probed, started, verdict, returncode, last_line,
                   prev_progress>>
    /\ UNCHANGED avars

VNext == VDiscover \/ BeginVideo \/ PollLine \/ ProcessExit \/ VSummary

VideoInit == VInit /\ AIdle

SpecVideo == VideoInit /\ [][VNext]_vars
(***************************************************************************)
(* Properties.                                                             *)
(***************************************************************************)
\* the sections of a combined transcript: its header lines
Sections(text) == {k \in 1..Len(text) : text[k] = HeaderOpen}

\* C1: a bad audio file never aborts the batch: main never dies, and a run
\* over N > 0 files of which K failed ends with combined_transcript.txt
\* written and holding exactly N - K sections, one per file that did not fail.
C1_BadFileNeverAbortsBatch ==
    /\ apc # "crashed"
    /\ (apc = "done" /\ NFiles > 0) =>
          /\ output.written
          /\ Cardinality(Sections(output.text)) =
                NFiles - Cardinality(bad_files)
          /\ \A k \in 1..NFiles :
                k \notin bad_files <=>
                   \E h \in Sections(output.text) :
                      output.text[h + 1] = audio_files[k]

\* the videos that failed: the probe failed or gave nothing usable, or the
\* transcoder exited nonzero
FailedVideos ==
    {k \in 1..NVideos :
        \/ probed[k] \in {"exit_nonzero", "zero", "unparseable"}
        \/ returncode[k] = "nonzero"}

\* C2: a failing video never aborts the batch: process_video_folder never
\* dies, and at the summary every video has been counted once, failed = K
\* and successful = N - K.
C2_FailedVideoNeverAbortsBatch ==
    /\ vpc # "crashed"
    /\ vpc = "done" =>
          /\ \A k \in 1..NVideos : verdict[k] # "none"
          /\ failed = Cardinality(FailedVideos)
          /\ successful = NVideos - Cardinality(FailedVideos)

\* C3: when the chunk loop is over, for length D and chunk size C (ms) there
\* are exactly ceil(D / C) chunks, chunk i is [i*C, min((i+1)*C, D)), none is
\* empty, the last one is D mod C long (C when C divides D), and the chunks
\* in order cover [0, D) with no gap and no overlap.
C3_ChunksCoverAudio ==
    apc = "returned" =>
       LET C == chunk_duration * 1000
           D == audio_len
           n == Len(ranges)
       IN /\ n * C >= D
          /\ n > 0 => (n - 1) * C < D
          /\ \A k \in 1..n :
                /\ ranges[k] = <<(k - 1) * C, Min(k * C, D)>>
                /\ ranges[k][1] < ranges[k][2]
          /\ n > 0 =>
                /\ ranges[n][2] - ranges[n][1] =
                      (IF D % C = 0 THEN C ELSE D % C)
                /\ ranges[1][1] = 0
                /\ ranges[n][2] = D
          /\ \A k \in 1..(n - 1) : ranges[k][2] = ranges[k + 1][1]

\* C3's case: several chunks, the last one short
C3_Witness ==
    /\ apc = "returned"
    /\ Len(ranges) >= 2
    /\ audio_len % (chunk_duration * 1000) # 0

\* the texts of the chunks the service recognized, in the order submitted
RecognizedOf(log) ==
    LET ok == SelectSeq(log, LAMBDA e : e.outcome = "text")
    IN [k \in 1..Len(ok) |-> RecognizedText(ok[k].i)]

\* t is the texts separated by single spaces and nothing else
IsSpaceJoined(t, texts) ==
    /\ Len(t) = (IF Len(texts) = 0 THEN 0 ELSE 2 * Len(texts) - 1)
    /\ \A k \in 1..Len(texts) : t[2 * k - 1] = texts[k]
    /\ \A k \in 1..(Len(texts) - 1) : t[2 * k] = " "

\* the file before the current one got through transcribe_audio
JustTranscribed ==
    /\ apc \in {"loop", "done"}
    /\ fidx > 1
    /\ (fidx - 1) \notin bad_files

\* C4: whatever the outcomes of the chunks, every chunk is submitted, in
\* increasing order, and the transcript returned is the recognized texts of
\* the successful chunks, in chunk order, joined by single spaces; a failed
\* chunk adds nothing.
C4_TranscriptIsRecognizedTextsInOrder ==
    /\ apc = "chunk" =>
          /\ Len(chunk_log) = ci
          /\ \A k \in 1..Len(chunk_log) : chunk_log[k].i = k - 1
    /\ JustTranscribed =>
          LET file_transcript == all_transcripts[Len(all_transcripts)]
              transcript == SubSeq(file_transcript, 4, Len(file_transcript))
          IN /\ Len(chunk_log) = chunks
             /\ \A k \in 1..Len(chunk_log) : chunk_log[k].i = k - 1
             /\ SubSeq(file_transcript, 1, 3) = Header(audio_files[fidx - 1])
             /\ IsSpaceJoined(transcript, RecognizedOf(chunk_log))

\* C4's case: a failed chunk between two recognized ones
C4_Witness ==
    /\ JustTranscribed
    /\ Len(chunk_log) = 3
    /\ chunk_log[1].outcome = "text"
    /\ chunk_log[2].outcome = "request_error"
    /\ chunk_log[3].outcome = "text"

\* C5: on every path, no chunk file of an earlier chunk exists when the next
\* chunk is taken up, and neither temp.wav nor a chunk file exists when the
\* driver takes up the next audio file.
C5_TemporaryFilesRemoved ==
    /\ apc = "chunk" =>
          \A j \in 0..(ci - 1) : fs[Resolve(ChunkPath(j))] # "chunk"
    /\ (apc = "loop" /\ fidx > 1) =>
          \A l \in Locations : fs[l] \notin {"conv", "chunk"}

\* C6: within one extraction last_progress starts at 0, never decreases,
\* stays within 0..100, and the progress bar has been given exactly
\* last_progress in all.
C6_ProgressMonotoneAndBounded ==
    /\ [](last_progress \in 0..100 /\ pbar_n = last_progress)
    /\ [][vpc = "poll" => last_progress' >= last_progress]_vars
    /\ [][(vpc = "loop" /\ vpc' = "poll") => last_progress' = 0]_vars

\* C6's case: a timestamp beyond the total has been read, then one that goes
\* backwards
C6_Witness ==
    /\ vpc = "poll"
    /\ last_line = LineQuarter
    /\ prev_progress = 100
    /\ last_progress = 100

\* status lines that carry no HH:MM:SS timestamp after the marker
MalformedLines ==
    {LineNoMarker, LineEof, LineMarkerEnd, LineMarkerBlank, LineNA,
     LineTwoFields, LineFourFields, LineLetters, LineEmptyFields}

\* C7: no status line raises out of extract_audio; a line without the marker
\* or without a well-formed timestamp leaves the estimate as it was; and
\* time=00:01:30.50 against 180 s gives 50.
C7_BadStatusLineIsHarmless ==
    last_line # NoLine =>
       /\ exception # "IndexError"
       /\ last_line \in MalformedLines => last_progress = prev_progress
       /\ (last_line = LineHalf /\ duration = 180 * Scale) =>
             last_progress = Max(prev_progress, 50)

\* C8: a probe that returns 0 (ffprobe exited nonzero, or reported 0) ends
\* extract_audio before the transcoder is started; the driver counts the
\* video as failed and goes on to the next; the transcoder is started only
\* after a probe that returned a nonzero duration.
C8_ZeroDurationShortCircuits ==
    \A k \in 1..NVideos :
       /\ k \in started => probed[k] = "nonzero"
       /\ probed[k] \in {"exit_nonzero", "zero"} =>
             /\ k \notin started
             /\ verdict[k] = "failure"
             /\ returncode[k] = "none"
             /\ vidx > k

\* C8's case: a zero duration for the first video, and the second one is
\* being transcoded
C8_Witness ==
    /\ NVideos = 2
    /\ probed[1] = "zero"
    /\ failed = 1
    /\ 2 \in started
    /\ vpc = "poll"

\* C9: R/<dir>/<stem>.<ext> is given O/<dir>/<stem>.<format> (R/a/b.mov and
\* mp3 give O/a/b.mp3), and no two discovered videos of a batch are given
\* the same output path.
C9_OutputPathsAreDistinct ==
    /\ \A k \in 1..Len(out_paths) :
          (video_files[k] = <<"R", "/", "a", "/", "b", ".", "m", "o", "v">> /\ audio_format = <<"m", "p", "3">>)
             => out_paths[k] = <<"O", "/", "a", "/", "b", ".", "m", "p", "3">>
    /\ \A j, k \in 1..Len(out_paths) :
          j # k => out_paths[j] # out_paths[k]

\* C10: after a run of main every input audio file is still there with its
\* original content.
C10_InputFilesSurvive ==
    apc = "done" =>
       \A k \in 1..NFiles :
          fs[Resolve(JoinPath(input_folder, audio_files[k]))] = "orig"
====
